---- MODULE Spec2Model ----
(***************************************************************************)
(* Third-Life colony simulation: citizens, livestock farms, resource pools *)
(* and the per-frame systems of the population and food plugins.           *)
(*                                                                         *)
(* One frame of the Update schedule runs every system once, in an order    *)
(* the schedule does not fix (the systems are registered as an unordered   *)
(* tuple).  Entity commands are deferred: each system fills its own        *)
(* command buffer, and the buffers are applied after all systems of the    *)
(* frame have run.  Every event reader has its own cursor, modelled as one *)
(* queue per reader.                                                       *)
(*                                                                         *)
(* Units: farm.size is in hectares; farm.harvested is kept in half         *)
(* hectares so that size / 2.0 stays an integer (cap = size half-ha).      *)
(***************************************************************************)
EXTENDS Integers, Sequences, FiniteSets, Bags, TLC

\* ---------------------------------------------------------------- bounds
NumColonies == 1
NumCitizens == 4
FarmsPerColony == 1
MaxFarmSize == 3
MaxDays == 5
MaxGenerated == 2
MaxPoolsPerKind == 2
MaxBorn == 1
BirthDays == 2
LifeDays == 1465
MaxCounted == 3

\* ------------------------------------------------------ program constants
CowFarmQuota == 4
MeatPerHalfHa == 1000
FoodCookMultiplier == 5
CookThreshold == 100 * FoodCookMultiplier
HardcodedAdultAge == 18
StartYear == 2050
NEW_BORN_HEIGHT == 50
NEW_BORN_WEIGHT == 3
GrowthDays == 9125

Colonies == 1..NumColonies
Citizens == 1..NumCitizens
Farms == 1..(NumColonies * FarmsPerColony)
NoFarm == 0

\* init_food gives every colony the same number of cow farms
FarmColony(f) == ((f - 1) \div FarmsPerColony) + 1

\* ------------------------------------------------------------- calendar
IsLeap(y) == (y % 4 = 0 /\ y % 100 # 0) \/ y % 400 = 0

DaysInMonth(y, m) ==
  IF m = 2 THEN (IF IsLeap(y) THEN 29 ELSE 28)
  ELSE IF m \in {4, 6, 9, 11} THEN 30 ELSE 31

MkDate(y, m, d) == [y |-> y, m |-> m, d |-> d]

RECURSIVE FromYo(_, _, _)
\* NaiveDate::from_yo_opt(year, ordinal): walk the months
FromYo(y, m, doy) ==
  IF doy <= DaysInMonth(y, m) THEN MkDate(y, m, doy)
  ELSE FromYo(y, m + 1, doy - DaysInMonth(y, m))

NextDay(dt) ==
  IF dt.d < DaysInMonth(dt.y, dt.m) THEN MkDate(dt.y, dt.m, dt.d + 1)
  ELSE IF dt.m < 12 THEN MkDate(dt.y, dt.m + 1, 1)
  ELSE MkDate(dt.y + 1, 1, 1)

\* NaiveDate::years_since: -1 stands for None
YearsSince(now, base) ==
  LET raw == now.y - base.y
      yrs == IF now.m < base.m \/ (now.m = base.m /\ now.d < base.d)
             THEN raw - 1 ELSE raw
  IN IF yrs >= 0 THEN yrs ELSE -1

StartDate == MkDate(StartYear, 1, 1)

\* ---------------------------------------------------------------- state
VARIABLES
  date,        \* GameDate.date
  days,        \* number of day advances so far
  colonies,    \* colony entity -> its WorldConfig population thresholds
  citizens,    \* citizen entity -> components
  farms,       \* cow farm entity -> [colony, size, harvested]
  pools,       \* resource entities in enumeration order: [kind, colony, amount]
  population,  \* colony -> Population snapshot
  dcBirthdays, \* DateChanged events unread by check_birthdays
  dcCheck,     \* DateChanged events unread by check_cow_farm_workers
  dcWork,      \* DateChanged events unread by work_cow_farm
  bdComeOfAge, \* CitizenBirthday events unread by come_of_age
  bdRetirement,\* CitizenBirthday events unread by retirement
  needsWorker, \* CowFarmNeedsWorker events unread by get_cow_farm_workers
  cmdHire,     \* command buffer of get_cow_farm_workers
  cmdAge,      \* command buffer of come_of_age
  cmdRetire,   \* command buffer of retirement
  ran,         \* systems that already ran in the current frame
  phase,       \* "run": systems running, "apply": command buffers being applied
  sent,        \* bag of resource events sent in the current frame
  created,     \* CitizenCreated events sent by init_citizens
  panicked,    \* "none", or the place whose unwrap/expect aborted the program
  simState,          \* State<SimulationState>
  nextState,         \* NextState<SimulationState>: "none" or the state set
  allConfigReaders,  \* AllConfigReaders: reader name -> "Waiting" / "Recived"
  registerEvents,    \* RegisterConfigReaderEvent unread by register_readers
  finishedEvents,    \* ConfigReaderFinishedEvent unread by recive_config_loaded_events
  loadingFiles,      \* LoadingConfigFileAssets.files: the names with a handle
  loadedAssets       \* Assets<ConfigFileAsset>: name -> the file parses

vars == <<date, days, colonies, citizens, farms, pools, population,
          dcBirthdays, dcCheck, dcWork, bdComeOfAge, bdRetirement, needsWorker,
          cmdHire, cmdAge, cmdRetire, ran, phase, sent, created, panicked,
          simState, nextState, allConfigReaders, registerEvents, finishedEvents,
          loadingFiles, loadedAssets>>

configVars == <<simState, nextState, allConfigReaders, registerEvents,
                finishedEvents, loadingFiles, loadedAssets>>
worldVars == <<date, days, colonies, citizens, farms, pools, population,
               dcBirthdays, dcCheck, dcWork, bdComeOfAge, bdRetirement, needsWorker,
               cmdHire, cmdAge, cmdRetire, sent, created>>

eventVars == <<dcBirthdays, dcCheck, dcWork, bdComeOfAge, bdRetirement, needsWorker>>
cmdVars == <<cmdHire, cmdAge, cmdRetire>>

\* systems that issue entity commands
CommandSystems == {"come_of_age", "retirement", "get_cow_farm_workers"}

\* the world systems run_if(in_state(SimulationState::Running))
Running == panicked = "none" /\ phase = "run" /\ simState = "Running"
CanRun(sys) == Running /\ sys \notin ran

\* ---------------------------------------------------------- small helpers
Min(a, b) == IF a < b THEN a ELSE b

RECURSIVE SeqSum(_)
SeqSum(s) == IF s = <<>> THEN 0 ELSE Head(s) + SeqSum(Tail(s))

RECURSIVE Repeat(_, _)
Repeat(x, n) == IF n <= 0 THEN <<>> ELSE <<x>> \o Repeat(x, n - 1)

RECURSIVE Concat(_)
Concat(ss) == IF ss = <<>> THEN <<>> ELSE Head(ss) \o Concat(Tail(ss))

\* all enumeration orders of a finite set
RECURSIVE Orders(_)
Orders(S) ==
  IF S = {} THEN {<<>>}
  ELSE UNION {{<<x>> \o o : o \in Orders(S \ {x})} : x \in S}

AddToBag(b, e) == b (+) SetToBag({e})

\* ------------------------------------------------------------------- f32
\* A non-negative f32 is [m, e] with value m * 2^e: m = 0 and e = 0, or
\* 2^23 <= m < 2^24. Every operation rounds to nearest, ties to even, as the
\* hardware does. Subnormals, infinities and negative values are not reached
\* by the quantities of the simulation.
RECURSIVE Pow2(_)
Pow2(e) == IF e = 0 THEN 1 ELSE 2 * Pow2(e - 1)

F32Precision == 24
F32Top == Pow2(F32Precision)
F32Low == Pow2(F32Precision - 1)
F32Zero == [m |-> 0, e |-> 0]

RECURSIVE F32Normal(_, _)
F32Normal(n, e) == IF n < F32Low THEN F32Normal(2 * n, e - 1) ELSE [m |-> n, e |-> e]

RECURSIVE F32Excess(_)
F32Excess(n) == IF n < F32Top THEN 0 ELSE 1 + F32Excess(n \div 2)

\* the f32 nearest to (n + s) * 2^e, where 0 <= s < 1 and sticky says s > 0;
\* with sticky set, n carries at least two bits more than the precision
F32Round(n, e, sticky) ==
  IF n = 0 THEN F32Zero
  ELSE IF n < F32Top THEN F32Normal(n, e)
  ELSE LET k == F32Excess(n)
           q == n \div Pow2(k)
           rem == n % Pow2(k)
           half == Pow2(k - 1)
           up == rem > half \/ (rem = half /\ (sticky \/ q % 2 = 1))
           q2 == IF up THEN q + 1 ELSE q
       IN IF q2 = F32Top THEN [m |-> F32Low, e |-> e + k + 1]
          ELSE [m |-> q2, e |-> e + k]

\* n as f32, for 0 <= n < 2^31
F32FromInt(n) == F32Round(n, 0, FALSE)

F32Le(a, b) ==
  \/ a.m = 0
  \/ b.m # 0 /\ (a.e < b.e \/ (a.e = b.e /\ a.m <= b.m))

\* a + b
F32Add(a, b) ==
  IF a.m = 0 THEN b
  ELSE IF b.m = 0 THEN a
  ELSE LET hi == IF a.e >= b.e THEN a ELSE b
           lo == IF a.e >= b.e THEN b ELSE a
           d == hi.e - lo.e
           small == 8 * lo.m
       IN IF d > F32Precision + 3
          THEN F32Round(8 * hi.m, hi.e - 3, TRUE)
          ELSE F32Round(8 * hi.m + small \div Pow2(d), hi.e - 3, small % Pow2(d) # 0)

\* a - b, for a >= b
F32Sub(a, b) ==
  IF b.m = 0 THEN a
  ELSE IF a = b THEN F32Zero
  ELSE LET d == a.e - b.e
       IN IF d <= 6
          THEN F32Round(a.m * Pow2(d) - b.m, b.e, FALSE)
          ELSE LET s == IF d - 6 > F32Precision THEN F32Precision + 1 ELSE d - 6
                   whole == b.m % Pow2(s) = 0
                   taken == b.m \div Pow2(s) + (IF whole THEN 0 ELSE 1)
               IN F32Round(64 * a.m - taken, a.e - 6, ~whole)

\* a * b: the 48-bit product of the significands in two 24-bit halves
F32Mul(a, b) ==
  IF a.m = 0 \/ b.m = 0 THEN F32Zero
  ELSE LET h == Pow2(12)
           a1 == a.m \div h
           a0 == a.m % h
           b1 == b.m \div h
           b0 == b.m % h
           mid == a1 * b0 + a0 * b1
           low == (mid % h) * h + a0 * b0
           top == a1 * b1 + mid \div h + low \div F32Top
           bottom == low % F32Top
           cut == Pow2(F32Precision - 3)
       IN F32Round(8 * top + bottom \div cut, a.e + b.e + F32Precision - 3,
                   bottom % cut # 0)

\* the quotient bits of r / b after the leading one, by long division
RECURSIVE F32LongDiv(_, _, _, _)
F32LongDiv(q, r, b, n) ==
  IF n = 0 THEN <<q, r>>
  ELSE IF 2 * r >= b THEN F32LongDiv(2 * q + 1, 2 * r - b, b, n - 1)
       ELSE F32LongDiv(2 * q, 2 * r, b, n - 1)

\* a / b, for b > 0
F32Div(a, b) ==
  IF a.m = 0 THEN F32Zero
  ELSE LET qr == F32LongDiv(a.m \div b.m, a.m % b.m, b.m, F32Precision + 2)
       IN F32Round(qr[1], a.e - b.e - (F32Precision + 2), qr[2] # 0)

\* the f32 a decimal n / d of a configuration file is read as
F32Decimal(n, d) == F32Div(F32FromInt(n), F32FromInt(d))

\* a / 2.
F32Half(a) == IF a.m = 0 THEN a ELSE [a EXCEPT !.e = @ - 1]

\* a.floor() as usize
F32Floor(a) ==
  IF a.e >= 0 THEN a.m * Pow2(a.e)
  ELSE IF -a.e > F32Precision THEN 0
  ELSE a.m \div Pow2(-a.e)

\* ------------------------------------------------------------ event sends
\* EventWriter::send: the event becomes visible to every reader of its type
\* that is installed (readers = the systems of the running specification)
Deliver(q, reader, readers, evs) == IF reader \in readers THEN q \o evs ELSE q

\* a reader that leaves the events it has read in its queue
UnreadKept(q) == q

\* EventReader::read to the end: nothing is left unread for the next run
Unread(q) == <<>>

\* ------------------------------------------------------------ cow farming
\* farms_map of check_cow_farm_workers / work_cow_farm: the workers counted
\* for farm f are the CowFarmer components naming f on citizens of f's colony
FarmerCount(cs, fs, f) ==
  Cardinality({c \in DOMAIN cs : cs[c].cowFarmer = f /\ cs[c].colony = fs[f].colony})

\* farms_map.get_mut(&colony_of.colony).unwrap() fails for a farmer whose
\* colony owns no cow farm
FarmsMapPanics(cs, fs) ==
  \E c \in DOMAIN cs :
    /\ cs[c].cowFarmer # NoFarm
    /\ ~ \E f \in DOMAIN fs : fs[f].colony = cs[c].colony

\* an inclusive range, 0..=(4 - farmer_count)
MissingWorkersInclusive(cs, fs, f) ==
  IF FarmerCount(cs, fs, f) < CowFarmQuota
  THEN CowFarmQuota - FarmerCount(cs, fs, f) + 1 ELSE 0

MissingWorkers(cs, fs, f) ==
  IF FarmerCount(cs, fs, f) < CowFarmQuota
  THEN CowFarmQuota - FarmerCount(cs, fs, f) ELSE 0

\* the events one DateChanged makes check_cow_farm_workers send, the farms
\* visited in the order o
NeedsWorkerBatch(cs, fs, o) ==
  Concat([i \in 1..Len(o) |->
            Repeat([colony |-> fs[o[i]].colony, farm |-> o[i]],
                   MissingWorkers(cs, fs, o[i]))])

check_cow_farm_workers ==
  /\ CanRun("check_cow_farm_workers")
  /\ ran' = ran \cup {"check_cow_farm_workers"}
  /\ dcCheck' = Unread(dcCheck)
  /\ IF dcCheck # <<>> /\ FarmsMapPanics(citizens, farms)
     THEN /\ panicked' = "check_cow_farm_workers"
          /\ UNCHANGED needsWorker
     ELSE /\ \E o \in Orders(DOMAIN farms) :
               needsWorker' = needsWorker \o
                  Concat([n \in 1..Len(dcCheck) |-> NeedsWorkerBatch(citizens, farms, o)])
          /\ UNCHANGED panicked
  /\ UNCHANGED <<date, days, colonies, citizens, farms, pools, population,
                 dcBirthdays, dcWork, bdComeOfAge, bdRetirement,
                 cmdVars, phase, sent, created>>
  /\ UNCHANGED configVars

\* the free citizens of every colony, whatever the colony asked for
FreeCitizensAnywhere(cs, k) == {c \in DOMAIN cs : ~cs[c].employed}

\* free_citizens: Query<(Entity, &CitizenOf), Without<Employed>>, narrowed by
\* citizen_of.colony == needs_worker_event.colony
FreeCitizens(cs, k) == {c \in DOMAIN cs : ~cs[c].employed /\ cs[c].colony = k}

\* the commands queued for the events evs when first[k] is the first free
\* citizen of colony k in the query's iteration order (0: none)
RECURSIVE HireCommands(_, _)
HireCommands(evs, first) ==
  IF evs = <<>> THEN <<>>
  ELSE (IF first[Head(evs).colony] = 0 THEN <<>>
        ELSE <<[citizen |-> first[Head(evs).colony], farm |-> Head(evs).farm]>>)
       \o HireCommands(Tail(evs), first)

\* the possible "first free citizen per colony" of one run of the query
FirstFree(cs, ks) ==
  {first \in [ks -> DOMAIN cs \cup {0}] :
     \A k \in ks : IF FreeCitizens(cs, k) = {} THEN first[k] = 0
                   ELSE first[k] \in FreeCitizens(cs, k)}

get_cow_farm_workers ==
  /\ CanRun("get_cow_farm_workers")
  /\ ran' = ran \cup {"get_cow_farm_workers"}
  /\ needsWorker' = Unread(needsWorker)
  /\ \E first \in FirstFree(citizens, DOMAIN colonies) :
       cmdHire' = cmdHire \o HireCommands(needsWorker, first)
  /\ UNCHANGED <<date, days, colonies, citizens, farms, pools, population,
                 dcBirthdays, dcCheck, dcWork, bdComeOfAge, bdRetirement,
                 cmdAge, cmdRetire, phase, sent, created, panicked>>
  /\ UNCHANGED configVars

\* the farm role inserted without Employed
HiredWithoutEmployed(c, farm) == [c EXCEPT !.cowFarmer = farm]

\* try_insert((CowFarmer { farm }, Employed))
Hired(c, farm) == [c EXCEPT !.cowFarmer = farm, !.employed = TRUE]

\* the hire commands applied to the entities that still exist
RECURSIVE ApplyHireCommands(_, _)
ApplyHireCommands(cs, cmds) ==
  IF cmds = <<>> THEN cs
  ELSE LET cmd == Head(cmds)
           cs1 == IF cmd.citizen \in DOMAIN cs
                  THEN [cs EXCEPT ![cmd.citizen] = Hired(@, cmd.farm)]
                  ELSE cs
       IN ApplyHireCommands(cs1, Tail(cmds))

\* the day's harvest without the clamp to the room left
HarvestedAmountUnclamped(cs, fs, f) == 2 * FarmerCount(cs, fs, f)

\* the amount that empties a full farm to start a new cycle
HarvestedAmountResetting(cs, fs, f) ==
  LET full == 2 * FarmerCount(cs, fs, f)
      room == fs[f].size - fs[f].harvested
  IN IF room = 0 THEN -fs[f].harvested
     ELSE IF full > room THEN room ELSE full

\* the clamp against the cap instead of the room left
HarvestedAmountAgainstCap(cs, fs, f) ==
  LET full == 2 * FarmerCount(cs, fs, f)
  IN IF full > fs[f].size THEN fs[f].size ELSE full

\* harvested_amount of work_cow_farm, in half hectares
HarvestedAmount(cs, fs, f) ==
  LET full == 2 * FarmerCount(cs, fs, f)
      room == fs[f].size - fs[f].harvested
  IN IF full > room THEN room ELSE full

\* the pool update and the event without the test harvested_amount > 0.0
WorkOneFarmUnguarded(cs, st, f) ==
  LET harvested_amount == HarvestedAmount(cs, st.farms, f)
      colony == st.farms[f].colony
      amount == harvested_amount * MeatPerHalfHa
      hit == {i \in 1..Len(st.pools) :
                st.pools[i].kind = "meat" /\ st.pools[i].colony = colony}
  IN [farms |-> [st.farms EXCEPT ![f].harvested = @ + harvested_amount],
      pools |-> [i \in 1..Len(st.pools) |->
                   IF i \in hit THEN [st.pools[i] EXCEPT !.amount = @ + amount]
                   ELSE st.pools[i]],
      sent |-> st.sent (+) [e \in {[type |-> "MeatCreated", colony |-> colony,
                                    amount |-> amount]} |-> Cardinality(hit)]]

\* one farm's labour day in work_cow_farm; st = [farms, pools, sent]
WorkOneFarm(cs, st, f) ==
  LET harvested_amount == HarvestedAmount(cs, st.farms, f)
      colony == st.farms[f].colony
      amount == harvested_amount * MeatPerHalfHa
      hit == {i \in 1..Len(st.pools) :
                st.pools[i].kind = "meat" /\ st.pools[i].colony = colony}
  IN [farms |-> [st.farms EXCEPT ![f].harvested = @ + harvested_amount],
      pools |-> IF harvested_amount > 0
                THEN [i \in 1..Len(st.pools) |->
                        IF i \in hit
                        THEN [st.pools[i] EXCEPT !.amount = @ + amount]
                        ELSE st.pools[i]]
                ELSE st.pools,
      sent |-> IF harvested_amount > 0
               THEN st.sent (+) [e \in {[type |-> "MeatCreated", colony |-> colony,
                                          amount |-> amount]} |-> Cardinality(hit)]
               ELSE st.sent]

RECURSIVE WorkFarms(_, _, _)
WorkFarms(cs, st, todo) ==
  IF todo = {} THEN st
  ELSE LET f == CHOOSE x \in todo : \A y \in todo : x <= y
       IN WorkFarms(cs, WorkOneFarm(cs, st, f), todo \ {f})

RECURSIVE WorkDays(_, _, _)
WorkDays(cs, st, n) ==
  IF n = 0 THEN st
  ELSE WorkDays(cs, WorkFarms(cs, st, DOMAIN st.farms), n - 1)

work_cow_farm ==
  /\ CanRun("work_cow_farm")
  /\ ran' = ran \cup {"work_cow_farm"}
  /\ dcWork' = Unread(dcWork)
  /\ IF dcWork # <<>> /\ FarmsMapPanics(citizens, farms)
     THEN /\ panicked' = "work_cow_farm"
          /\ UNCHANGED <<farms, pools, sent>>
     ELSE /\ LET st == WorkDays(citizens,
                                [farms |-> farms, pools |-> pools, sent |-> sent],
                                Len(dcWork))
             IN /\ farms' = st.farms
                /\ pools' = st.pools
                /\ sent' = st.sent
          /\ UNCHANGED panicked
  /\ UNCHANGED <<date, days, colonies, citizens, population,
                 dcBirthdays, dcCheck, bdComeOfAge, bdRetirement, needsWorker,
                 cmdVars, phase, created>>
  /\ UNCHANGED configVars

\* ----------------------------------------------------------- grain farming
\* The grain farms deliver their harvest to the carb pool of their colony:
\* a non-negative amount per frame, announced by CarbCreated
CarbDeliveries == {0, 300, 1000}

work_wheat_farm ==
  /\ CanRun("work_wheat_farm")
  /\ ran' = ran \cup {"work_wheat_farm"}
  /\ \E k \in DOMAIN colonies, amount \in CarbDeliveries :
       /\ pools' = [i \in 1..Len(pools) |->
                      IF pools[i].kind = "carb" /\ pools[i].colony = k
                      THEN [pools[i] EXCEPT !.amount = @ + amount] ELSE pools[i]]
       /\ sent' = IF amount > 0
                  THEN AddToBag(sent, [type |-> "CarbCreated", colony |-> k,
                                       amount |-> amount])
                  ELSE sent
  /\ UNCHANGED <<date, days, colonies, citizens, farms, population,
                 eventVars, cmdVars, phase, created, panicked>>
  /\ UNCHANGED configVars

\* ---------------------------------------------------------------- cooking
\* the entities of one resource query, in its iteration order
PoolsOfKind(ps, kind) == {i \in 1..Len(ps) : ps[i].kind = kind}

\* .entry(kind).or_insert(entity): the first pool of the kind met for colony k
\* (0: the colony has none)
FirstPool(ps, kind, k) ==
  LET mine == {i \in PoolsOfKind(ps, kind) : ps[i].colony = k}
  IN IF mine = {} THEN 0 ELSE CHOOSE i \in mine : \A j \in mine : i <= j

\* the keys of colony_food_resources_map: it is folded from the food pools
FoodColonies(ps) == {ps[i].colony : i \in PoolsOfKind(ps, "food")}

\* get_mut(&resource_of.colony).unwrap() for a carb or meat pool whose colony
\* is not in the map, or resource_entities.get(kind).unwrap() for a colony of
\* the map without a carb or a meat pool
CookPanics(ps) ==
  \/ \E i \in PoolsOfKind(ps, "carb") \cup PoolsOfKind(ps, "meat") :
       ps[i].colony \notin FoodColonies(ps)
  \/ \E k \in FoodColonies(ps) :
       FirstPool(ps, "carb", k) = 0 \/ FirstPool(ps, "meat", k) = 0

\* no gate at all
CooksUngated(ps, k) == TRUE

\* the gate looking at the carbs alone
CooksOnCarbAlone(ps, k) ==
  ps[FirstPool(ps, "carb", k)].amount > CookThreshold

\* the gate with >= in place of >
CooksInclusive(ps, k) ==
  /\ ps[FirstPool(ps, "carb", k)].amount >= CookThreshold
  /\ ps[FirstPool(ps, "meat", k)].amount >= CookThreshold

\* the colonies whose carb and meat both exceed 100.0 * food_cook_multiplier
Cooks(ps, k) ==
  /\ ps[FirstPool(ps, "carb", k)].amount > CookThreshold
  /\ ps[FirstPool(ps, "meat", k)].amount > CookThreshold

CookedPools(ps) ==
  [i \in 1..Len(ps) |->
     LET k == ps[i].colony
     IN IF k \in FoodColonies(ps) /\ Cooks(ps, k) /\ i = FirstPool(ps, ps[i].kind, k)
        THEN [ps[i] EXCEPT !.amount = IF ps[i].kind = "food"
                                       THEN @ + CookThreshold ELSE @ - CookThreshold]
        ELSE ps[i]]

\* the notifications without the one for the meat taken
CookEventsNoMeat(ps) ==
  SetToBag({[type |-> t, colony |-> k, amount |-> CookThreshold] :
              t \in {"CarbConsumed", "FoodCreated"},
              k \in {j \in FoodColonies(ps) : Cooks(ps, j)}})

CookEvents(ps) ==
  SetToBag({[type |-> t, colony |-> k, amount |-> CookThreshold] :
              t \in {"CarbConsumed", "MeatConsumed", "FoodCreated"},
              k \in {j \in FoodColonies(ps) : Cooks(ps, j)}})

cook_food ==
  /\ CanRun("cook_food")
  /\ ran' = ran \cup {"cook_food"}
  /\ IF CookPanics(pools)
     THEN panicked' = "cook_food" /\ UNCHANGED <<pools, sent>>
     ELSE /\ pools' = CookedPools(pools)
          /\ sent' = sent (+) CookEvents(pools)
          /\ UNCHANGED panicked
  /\ UNCHANGED <<date, days, colonies, citizens, farms, population,
                 eventVars, cmdVars, phase, created>>
  /\ UNCHANGED configVars

\* ------------------------------------------------------------- population
\* the Citizen entity spawned by init_citizens for a drawn age (whole years)
\* and a drawn day of the year, on the game date now
GenBirthday(age, doy, now) == FromYo(now.y - age, 1, doy)

\* daily_growth = (genetic_height - NEW_BORN_HEIGHT) / 9125.0, and the same
\* for daily_fattening
DailyRate(genetic, new_born) ==
  F32Div(F32Sub(genetic, F32FromInt(new_born)), F32FromInt(GrowthDays))

\* (age * 365) as f32 * daily_growth + NEW_BORN_HEIGHT
InitialSize(age, genetic, new_born) ==
  F32Add(F32Mul(F32FromInt(age * 365), DailyRate(genetic, new_born)),
         F32FromInt(new_born))

GenCitizen(colony, age, doy, female, genetic_height, genetic_weight, now) ==
  LET birthday == GenBirthday(age, doy, now)
  IN [colony |-> colony,
      birthday |-> birthday,
      genetic_height |-> genetic_height,
      genetic_weight |-> genetic_weight,
      height |-> InitialSize(age, genetic_height, NEW_BORN_HEIGHT),
      weight |-> InitialSize(age, genetic_weight, NEW_BORN_WEIGHT),
      female |-> female,
      children_had |-> 0,
      employable |-> YearsSince(now, birthday) >= HardcodedAdultAge,
      youngling |-> FALSE,
      retiree |-> FALSE,
      pregnancy |-> FALSE,
      employed |-> FALSE,
      cowFarmer |-> NoFarm,
      wheatFarmer |-> NoFarm]

\* game_date.years_since(birthday).unwrap() in init_citizens
GenPanics(age, doy, now) == YearsSince(now, GenBirthday(age, doy, now)) = -1

\* the comparison of the months alone
BirthdayTodayMonthOnly(cs, d) ==
  {c \in DOMAIN cs : cs[c].birthday.m = d.m}

\* the citizens whose birthday falls on the date d
BirthdayToday(cs, d) ==
  {c \in DOMAIN cs : cs[c].birthday.m = d.m /\ cs[c].birthday.d = d.d}

\* the CitizenBirthday events one DateChanged makes check_birthdays send,
\* the citizens visited in the order o
BirthdayBatch(cs, d, o) ==
  [i \in 1..Len(o) |-> [entity |-> o[i], colony |-> cs[o[i]].colony,
                        age |-> YearsSince(d, cs[o[i]].birthday)]]

\* every event sequence the DateChanged events ds can produce
RECURSIVE BirthdayBatches(_, _)
BirthdayBatches(cs, ds) ==
  IF ds = <<>> THEN {<<>>}
  ELSE {BirthdayBatch(cs, Head(ds), o) \o rest :
          o \in Orders(BirthdayToday(cs, Head(ds))),
          rest \in BirthdayBatches(cs, Tail(ds))}

SeqRange(q) == {q[i] : i \in 1..Len(q)}

check_birthdays(readers) ==
  /\ CanRun("check_birthdays")
  /\ ran' = ran \cup {"check_birthdays"}
  /\ dcBirthdays' = Unread(dcBirthdays)
  /\ IF \E d \in SeqRange(dcBirthdays) : \E c \in BirthdayToday(citizens, d) :
          YearsSince(d, citizens[c].birthday) = -1
     THEN /\ panicked' = "check_birthdays"
          /\ UNCHANGED <<bdComeOfAge, bdRetirement>>
     ELSE /\ \E evs \in BirthdayBatches(citizens, dcBirthdays) :
               /\ bdComeOfAge' = Deliver(bdComeOfAge, "come_of_age", readers, evs)
               /\ bdRetirement' = Deliver(bdRetirement, "retirement", readers, evs)
          /\ UNCHANGED panicked
  /\ UNCHANGED <<date, days, colonies, citizens, farms, pools, population,
                 dcCheck, dcWork, needsWorker, cmdVars, phase, sent, created>>
  /\ UNCHANGED configVars

\* the entities a birthday reader queues a command for
RECURSIVE BirthdayCommands(_, _, _)
BirthdayCommands(evs, cols, threshold) ==
  IF evs = <<>> THEN <<>>
  ELSE (IF Head(evs).age = cols[Head(evs).colony][threshold]
        THEN <<Head(evs).entity>> ELSE <<>>)
       \o BirthdayCommands(Tail(evs), cols, threshold)

\* colonies.get(birthday.colony).unwrap()
UnknownColony(evs) == \E i \in 1..Len(evs) : evs[i].colony \notin DOMAIN colonies

come_of_age ==
  /\ CanRun("come_of_age")
  /\ ran' = ran \cup {"come_of_age"}
  /\ bdComeOfAge' = Unread(bdComeOfAge)
  /\ IF UnknownColony(bdComeOfAge)
     THEN panicked' = "come_of_age" /\ UNCHANGED cmdAge
     ELSE /\ cmdAge' = cmdAge \o BirthdayCommands(bdComeOfAge, colonies, "age_of_adult")
          /\ UNCHANGED panicked
  /\ UNCHANGED <<date, days, colonies, citizens, farms, pools, population,
                 dcBirthdays, dcCheck, dcWork, bdRetirement, needsWorker,
                 cmdHire, cmdRetire, phase, sent, created>>
  /\ UNCHANGED configVars

retirement ==
  /\ CanRun("retirement")
  /\ ran' = ran \cup {"retirement"}
  /\ bdRetirement' = Unread(bdRetirement)
  /\ IF UnknownColony(bdRetirement)
     THEN panicked' = "retirement" /\ UNCHANGED cmdRetire
     ELSE /\ cmdRetire' = cmdRetire \o BirthdayCommands(bdRetirement, colonies, "age_of_retirement")
          /\ UNCHANGED panicked
  /\ UNCHANGED <<date, days, colonies, citizens, farms, pools, population,
                 dcBirthdays, dcCheck, dcWork, bdComeOfAge, needsWorker,
                 cmdHire, cmdAge, phase, sent, created>>
  /\ UNCHANGED configVars

\* coming of age that makes the citizen Employable as well
ComeOfAgeGrantsEmployable(c) == [c EXCEPT !.youngling = FALSE, !.employable = TRUE]

\* e.remove::<Youngling>()
ComeOfAge(c) == [c EXCEPT !.youngling = FALSE]

\* the commands of come_of_age, each on an entity that still exists
RECURSIVE ApplyAgeCommands(_, _)
ApplyAgeCommands(cs, cmds) ==
  IF cmds = <<>> THEN cs
  ELSE ApplyAgeCommands(
         IF Head(cmds) \in DOMAIN cs
         THEN [cs EXCEPT ![Head(cmds)] = ComeOfAge(@)] ELSE cs,
         Tail(cmds))

\* retirement that leaves the CowFarmer component in place
RetireCitizenKeepsFarm(c) ==
  [c EXCEPT !.wheatFarmer = NoFarm, !.employed = FALSE, !.retiree = TRUE]

\* remove WheatFarmer, CowFarmer and Employed, insert Retiree
RetireCitizen(c) ==
  [c EXCEPT !.wheatFarmer = NoFarm, !.cowFarmer = NoFarm,
            !.employed = FALSE, !.retiree = TRUE]

RECURSIVE ApplyRetireCommands(_, _)
ApplyRetireCommands(cs, cmds) ==
  IF cmds = <<>> THEN cs
  ELSE ApplyRetireCommands(
         IF Head(cmds) \in DOMAIN cs
         THEN [cs EXCEPT ![Head(cmds)] = RetireCitizen(@)] ELSE cs,
         Tail(cmds))

\* ------------------------------------------------------ update_population
\* the running value without the halving
Avg2Unhalved(a, v) == F32Add(a, v)

\* *avg = (*avg + v) / 2.
Avg2(a, v) == F32Half(F32Add(a, v))

RECURSIVE FoldFrom(_, _)
FoldFrom(a, vals) == IF vals = <<>> THEN a ELSE FoldFrom(Avg2(a, Head(vals)), Tail(vals))

\* entry(colony).or_insert(first value), then the update for every value, the
\* first included; unwrap_or(0.) for a colony without any value
PairwiseAverage(vals) == IF vals = <<>> THEN F32Zero ELSE FoldFrom(Head(vals), vals)

\* avg.floor() as usize
FloorOf(a) == F32Floor(a)

\* the citizens of colony k that a query matches, in the iteration order o
Visited(cs, o, k, matched) == SelectSeq(o, LAMBDA c : cs[c].colony = k /\ c \in matched)

IsWorkingPop(c) == ~c.youngling /\ ~c.retiree /\ ~c.pregnancy
IsYoungling(c) == c.youngling
IsRetiree(c) == c.retiree
IsFemale(c) == c.female
IsCitizen(c) == TRUE

Snapshot(cs, o, k, now) ==
  LET all == Visited(cs, o, k, {c \in DOMAIN cs : IsCitizen(cs[c])})
      women == Visited(cs, o, k, {c \in DOMAIN cs : IsFemale(cs[c])})
  IN [count |-> Len(all),
      younglings |-> Len(Visited(cs, o, k, {c \in DOMAIN cs : IsYoungling(cs[c])})),
      working_pop |-> Len(Visited(cs, o, k, {c \in DOMAIN cs : IsWorkingPop(cs[c])})),
      retirees |-> Len(Visited(cs, o, k, {c \in DOMAIN cs : IsRetiree(cs[c])})),
      average_age |->
        FloorOf(PairwiseAverage([i \in 1..Len(all) |->
                                   F32FromInt(YearsSince(now, cs[all[i]].birthday))])),
      average_height |-> PairwiseAverage([i \in 1..Len(all) |-> cs[all[i]].height]),
      average_weight |-> PairwiseAverage([i \in 1..Len(all) |-> cs[all[i]].weight]),
      average_children_per_mother |->
        PairwiseAverage([i \in 1..Len(women) |-> F32FromInt(cs[women[i]].children_had)])]

update_population ==
  /\ CanRun("update_population")
  /\ ran' = ran \cup {"update_population"}
  /\ IF \E c \in DOMAIN citizens : YearsSince(date, citizens[c].birthday) = -1
     THEN panicked' = "update_population" /\ UNCHANGED population
     ELSE /\ \E o \in Orders(DOMAIN citizens) :
               population' = [k \in DOMAIN population |-> Snapshot(citizens, o, k, date)]
          /\ UNCHANGED panicked
  /\ UNCHANGED <<date, days, colonies, citizens, farms, pools,
                 eventVars, cmdVars, phase, sent, created>>
  /\ UNCHANGED configVars

\* ------------------------------------------------------------------ births
\* The birth subsystem hands a newborn to the citizen store: a Youngling of
\* its mother's colony, born on the game date.
Newborn(k, female, cfg, now) ==
  [colony |-> k,
   birthday |-> now,
   genetic_height |-> cfg.genetic_height,
   genetic_weight |-> cfg.genetic_weight,
   height |-> F32FromInt(NEW_BORN_HEIGHT),
   weight |-> F32FromInt(NEW_BORN_WEIGHT),
   female |-> female,
   children_had |-> 0,
   employable |-> FALSE,
   youngling |-> TRUE,
   retiree |-> FALSE,
   pregnancy |-> FALSE,
   employed |-> FALSE,
   cowFarmer |-> NoFarm,
   wheatFarmer |-> NoFarm]

\* a citizen is born in this frame
give_birth ==
  /\ CanRun("give_birth")
  /\ Len(citizens) < MaxBorn
  /\ days < BirthDays
  /\ ran' = ran \cup {"give_birth"}
  /\ \E k \in DOMAIN colonies, female \in BOOLEAN :
       citizens' = Append(citizens, Newborn(k, female, colonies[k], date))
  /\ UNCHANGED <<date, days, colonies, farms, pools, population,
                 eventVars, cmdVars, phase, sent, created, panicked>>
  /\ UNCHANGED configVars

\* nobody is born in this frame
no_birth ==
  /\ CanRun("give_birth")
  /\ ran' = ran \cup {"give_birth"}
  /\ UNCHANGED <<date, days, colonies, citizens, farms, pools, population,
                 eventVars, cmdVars, phase, sent, created, panicked>>
  /\ UNCHANGED configVars

\* -------------------------------------------------- configuration loading
\* the configuration loaders of the application, by path_with_name
Loaders == {"config", "worlds"}

\* the notify_done system of each loader
NotifyDone == [n \in Loaders |-> IF n = "config" THEN "ThirdLifeConfig::notify_done"
                                 ELSE "WorldsConfig::notify_done"]

ConfigSystems == {"show_config_selection", "register_readers",
                  "recive_config_loaded_events"} \cup {NotifyDone[n] : n \in Loaders}

CanRunConfig(sys) ==
  panicked = "none" /\ phase = "run" /\ simState # "Running" /\ sys \notin ran

NoReaders == [n \in {} |-> "Waiting"]
NoAssets == [n \in {} |-> TRUE]

\* all.insert(name, state)
Inserted(all, name, state) ==
  [n \in DOMAIN all \cup {name} |-> IF n = name THEN state ELSE all[n]]

\* the loop of register_readers over the events read: the resulting table,
\* and ok = FALSE when it met a name already in the table
RECURSIVE RegisterAll(_, _)
RegisterAll(all, evs) ==
  IF evs = <<>> THEN [all |-> all, ok |-> TRUE]
  ELSE IF Head(evs) \in DOMAIN all THEN [all |-> all, ok |-> FALSE]
  ELSE RegisterAll(Inserted(all, Head(evs), "Waiting"), Tail(evs))

register_readers ==
  /\ CanRunConfig("register_readers")
  /\ ran' = ran \cup {"register_readers"}
  /\ IF simState \in {"ConfigSelection", "LoadingConfig"}
     THEN LET r == RegisterAll(allConfigReaders, registerEvents)
          IN /\ allConfigReaders' = r.all
             /\ registerEvents' = <<>>
             /\ panicked' = IF r.ok THEN panicked ELSE "register_readers"
     ELSE UNCHANGED <<allConfigReaders, registerEvents, panicked>>
  /\ UNCHANGED <<worldVars, phase, simState, nextState, finishedEvents,
                 loadingFiles, loadedAssets>>

\* a second finished event for one name passing for the first
AlreadyRecivedTolerated(all, name) == FALSE

\* match &val { LoadingReader::Recived => panic!(..) }
AlreadyRecived(all, name) == all[name] = "Recived"

\* the loop of recive_config_loaded_events over the events read: ok = FALSE
\* for a name that is not in the table or is already Recived
RECURSIVE ReceiveAll(_, _)
ReceiveAll(all, evs) ==
  IF evs = <<>> THEN [all |-> all, ok |-> TRUE]
  ELSE IF Head(evs) \notin DOMAIN all THEN [all |-> all, ok |-> FALSE]
  ELSE IF AlreadyRecived(all, Head(evs)) THEN [all |-> all, ok |-> FALSE]
  ELSE ReceiveAll([all EXCEPT ![Head(evs)] = "Recived"], Tail(evs))

\* the test passing as soon as one reader is Recived
SomeRecived(all) == \E n \in DOMAIN all : all[n] = "Recived"

\* all.iter().all(|(_, e)| e.eq(&LoadingReader::Recived))
AllRecived(all) == \A n \in DOMAIN all : all[n] = "Recived"

recive_config_loaded_events ==
  /\ CanRunConfig("recive_config_loaded_events")
  /\ ran' = ran \cup {"recive_config_loaded_events"}
  /\ IF simState = "LoadingConfig"
     THEN LET r == ReceiveAll(allConfigReaders, finishedEvents)
          IN /\ allConfigReaders' = r.all
             /\ finishedEvents' = <<>>
             /\ panicked' = IF r.ok THEN panicked ELSE "recive_config_loaded_events"
             /\ nextState' = IF r.ok /\ AllRecived(r.all)
                             THEN "FinishedLoadingConfig" ELSE nextState
     ELSE UNCHANGED <<allConfigReaders, finishedEvents, panicked, nextState>>
  /\ UNCHANGED <<worldVars, phase, simState, registerEvents,
                 loadingFiles, loadedAssets>>

\* the selection window: a folder button is clicked in this frame or not
show_config_selection ==
  /\ CanRunConfig("show_config_selection")
  /\ ran' = ran \cup {"show_config_selection"}
  /\ IF simState = "ConfigSelection"
     THEN \E clicked \in BOOLEAN :
            nextState' = IF clicked THEN "LoadingConfig" ELSE nextState
     ELSE UNCHANGED nextState
  /\ UNCHANGED <<worldVars, phase, panicked, simState, allConfigReaders,
                 registerEvents, finishedEvents, loadingFiles, loadedAssets>>

\* the handle left in place after its asset was taken
HandleKept(files, n) == files

\* loading_assets.as_mut().files.remove(&conf_name)
HandleRemoved(files, n) == files \ {n}

\* ConfigurationLoader::notify_done of the loader n
notify_done(n) ==
  /\ CanRunConfig(NotifyDone[n])
  /\ ran' = ran \cup {NotifyDone[n]}
  /\ IF simState = "LoadingConfig" /\ n \in loadingFiles /\ n \in DOMAIN loadedAssets
     THEN /\ loadingFiles' = HandleRemoved(loadingFiles, n)
          /\ IF loadedAssets[n]
             THEN finishedEvents' = Append(finishedEvents, n) /\ UNCHANGED panicked
             ELSE panicked' = NotifyDone[n] /\ UNCHANGED finishedEvents
     ELSE UNCHANGED <<loadingFiles, finishedEvents, panicked>>
  /\ UNCHANGED <<worldVars, phase, simState, nextState, allConfigReaders,
                 registerEvents, loadedAssets>>

\* the asset server finishes reading the file of the loader n
asset_loaded(n) ==
  /\ panicked = "none"
  /\ simState = "LoadingConfig"
  /\ n \notin DOMAIN loadedAssets
  /\ \E parses \in BOOLEAN :
       loadedAssets' = [m \in DOMAIN loadedAssets \cup {n} |->
                          IF m = n THEN parses ELSE loadedAssets[m]]
  /\ UNCHANGED <<worldVars, ran, phase, panicked, simState, nextState,
                 allConfigReaders, registerEvents, finishedEvents, loadingFiles>>

\* the end of the frame and the StateTransition of the next one; entering
\* LoadingConfig runs start_loading of every loader
ConfigFrame ==
  /\ panicked = "none" /\ phase = "run" /\ simState # "Running"
  /\ ran = ConfigSystems
  /\ ran' = {}
  /\ nextState' = "none"
  /\ simState' = IF nextState = "none" THEN simState ELSE nextState
  /\ IF nextState = "LoadingConfig" /\ simState # "LoadingConfig"
     THEN IF loadingFiles = {}
          THEN loadingFiles' = Loaders /\ UNCHANGED panicked
          ELSE panicked' = "start_loading" /\ UNCHANGED loadingFiles
     ELSE UNCHANGED <<loadingFiles, panicked>>
  /\ UNCHANGED <<worldVars, phase, allConfigReaders, registerEvents,
                 finishedEvents, loadedAssets>>

\* the configuration as the world systems find it
ConfigLoaded ==
  /\ simState = "Running"
  /\ nextState = "none"
  /\ allConfigReaders = [n \in Loaders |-> "Recived"]
  /\ registerEvents = <<>>
  /\ finishedEvents = <<>>
  /\ loadingFiles = {}
  /\ loadedAssets = [n \in Loaders |-> TRUE]

\* ------------------------------------------------- deferred command buffers
\* all systems of the frame (the set S) have run: the buffers get applied
BeginApply(S) ==
  /\ Running
  /\ ran = S
  /\ phase' = "apply"
  /\ ran' = S \cap CommandSystems
  /\ UNCHANGED <<date, days, colonies, citizens, farms, pools, population,
                 eventVars, cmdVars, sent, created, panicked>>
  /\ UNCHANGED configVars

Applying(sys) == panicked = "none" /\ phase = "apply" /\ sys \in ran

ApplyHire ==
  /\ Applying("get_cow_farm_workers")
  /\ citizens' = ApplyHireCommands(citizens, cmdHire)
  /\ cmdHire' = <<>>
  /\ ran' = ran \ {"get_cow_farm_workers"}
  /\ UNCHANGED <<date, days, colonies, farms, pools, population, eventVars,
                 cmdAge, cmdRetire, phase, sent, created, panicked>>
  /\ UNCHANGED configVars

ApplyComeOfAge ==
  /\ Applying("come_of_age")
  /\ citizens' = ApplyAgeCommands(citizens, cmdAge)
  /\ cmdAge' = <<>>
  /\ ran' = ran \ {"come_of_age"}
  /\ UNCHANGED <<date, days, colonies, farms, pools, population, eventVars,
                 cmdHire, cmdRetire, phase, sent, created, panicked>>
  /\ UNCHANGED configVars

ApplyRetirement ==
  /\ Applying("retirement")
  /\ citizens' = ApplyRetireCommands(citizens, cmdRetire)
  /\ cmdRetire' = <<>>
  /\ ran' = ran \ {"retirement"}
  /\ UNCHANGED <<date, days, colonies, farms, pools, population, eventVars,
                 cmdHire, cmdAge, phase, sent, created, panicked>>
  /\ UNCHANGED configVars

\* ------------------------------------------------------------ time system
\* Every buffer is applied and the frame ends.  The clock runs ahead of the
\* Update systems of the next frame; the resource events of the ended frame
\* are dropped with their buffers.
FrameEnds == panicked = "none" /\ phase = "apply" /\ ran = {}

\* the next frame starts on the same day
TimePasses ==
  /\ FrameEnds
  /\ phase' = "run"
  /\ sent' = EmptyBag
  /\ UNCHANGED <<date, days, colonies, citizens, farms, pools, population,
                 eventVars, cmdVars, ran, created, panicked>>
  /\ UNCHANGED configVars

\* the next frame starts on the next day: DateChanged { date } is sent
DayChanges(readers, lastDay) ==
  /\ FrameEnds
  /\ days < lastDay
  /\ phase' = "run"
  /\ sent' = EmptyBag
  /\ date' = NextDay(date)
  /\ days' = days + 1
  /\ dcBirthdays' = Deliver(dcBirthdays, "check_birthdays", readers, <<date'>>)
  /\ dcCheck' = Deliver(dcCheck, "check_cow_farm_workers", readers, <<date'>>)
  /\ dcWork' = Deliver(dcWork, "work_cow_farm", readers, <<date'>>)
  /\ UNCHANGED <<colonies, citizens, farms, pools, population,
                 bdComeOfAge, bdRetirement, needsWorker,
                 cmdVars, ran, created, panicked>>
  /\ UNCHANGED configVars

\* ------------------------------------------------------------- start-up
\* init_food: per colony one FoodResource, one CarbResource, one MeatResource
RECURSIVE InitPools(_)
InitPools(k) ==
  IF k = 0 THEN <<>>
  ELSE InitPools(k - 1) \o <<[kind |-> "food", colony |-> k, amount |-> 0],
                             [kind |-> "carb", colony |-> k, amount |-> 0],
                             [kind |-> "meat", colony |-> k, amount |-> 0]>>

\* Population::default()
DefaultPopulation ==
  [count |-> 0, younglings |-> 0, working_pop |-> 0, retirees |-> 0,
   average_age |-> 0, average_height |-> F32Zero, average_weight |-> F32Zero,
   average_children_per_mother |-> F32Zero]

\* the population configuration of a colony
Config(adult, retire, gh, gw) ==
  [age_of_adult |-> adult, age_of_retirement |-> retire,
   genetic_height |-> gh, genetic_weight |-> gw]

\* the configurations and the (age, day of year, female) draws explored
SpecConfigs == {Config(18, 65, F32FromInt(175), F32FromInt(78))}
SpecDraws == <<<<30, 100, FALSE>>, <<65, 4, TRUE>>>>

\* citizens are interchangeable: draws are taken in non-decreasing order
DrawChoices(ks, draws) == ks \X (1..Len(draws))
DrawRank(ch, draws) == (ch[1] - 1) * Len(draws) + ch[2]

GeneratedPopulations(ids, ks, cfg, draws, now) ==
  {[c \in ids |->
      GenCitizen(pick[c][1], draws[pick[c][2]][1], draws[pick[c][2]][2],
                 draws[pick[c][2]][3], cfg[pick[c][1]].genetic_height,
                 cfg[pick[c][1]].genetic_weight, now)] :
   pick \in {p \in [ids -> DrawChoices(ks, draws)] :
               \A c, e \in ids : c < e => DrawRank(p[c], draws) <= DrawRank(p[e], draws)}}

QuietStart ==
  /\ days = 0
  /\ population = [k \in DOMAIN colonies |-> DefaultPopulation]
  /\ dcBirthdays = <<>> /\ dcCheck = <<>> /\ dcWork = <<>>
  /\ bdComeOfAge = <<>> /\ bdRetirement = <<>> /\ needsWorker = <<>>
  /\ cmdHire = <<>> /\ cmdAge = <<>> /\ cmdRetire = <<>>
  /\ ran = {} /\ phase = "run" /\ sent = EmptyBag /\ created = <<>>
  /\ panicked = "none"
  /\ ConfigLoaded

Init ==
  /\ date = StartDate
  /\ colonies \in [Colonies -> SpecConfigs]
  /\ citizens \in GeneratedPopulations(Citizens, Colonies, colonies, SpecDraws, date)
  /\ \E size \in (MaxFarmSize-1)..MaxFarmSize :
       farms = [f \in Farms |-> [colony |-> FarmColony(f), size |-> size, harvested |-> 0]]
  /\ pools = InitPools(NumColonies)
  /\ QuietStart

SpecSystems == {"check_birthdays", "retirement",
                "check_cow_farm_workers", "get_cow_farm_workers", "work_cow_farm"}

Next ==
  \/ TimePasses
  \/ DayChanges(SpecSystems, MaxDays)
  \/ check_birthdays(SpecSystems)
  \/ retirement
  \/ check_cow_farm_workers
  \/ get_cow_farm_workers
  \/ work_cow_farm
  \/ BeginApply(SpecSystems)
  \/ ApplyHire
  \/ ApplyRetirement

Spec == Init /\ [][Next]_vars

\* ------------------------------------------------- properties: cow farming
\* what the claims count, written out on the state
WorkersOf(cs, f) == {c \in DOMAIN cs : cs[c].cowFarmer = f /\ cs[c].colony = farms[f].colony}
Idle(cs, k) == {c \in DOMAIN cs : cs[c].colony = k /\ ~cs[c].employed}
CommandsFor(cmds, f) == {i \in 1..Len(cmds) : cmds[i].farm = f}
EventsFor(evs, k, f) == {i \in 1..Len(evs) : evs[i].farm = f /\ evs[i].colony = k}
Appended(old, new) == SubSeq(new, Len(old) + 1, Len(new))

\* C1: when the hires of one run of get_cow_farm_workers take effect, a farm
\* with M handled notifications in a colony with N idle citizens gets exactly
\* min(M, N) newly employed citizens (here every colony has one farm)
C1_HiresFillDemand ==
  [][ApplyHire =>
       \A f \in DOMAIN farms :
         Cardinality({c \in DOMAIN citizens :
                        ~citizens[c].employed /\ citizens'[c].cowFarmer = f})
           = Min(Cardinality(CommandsFor(cmdHire, f)),
                 Cardinality(Idle(citizens, farms[f].colony)))]_vars

\* C2: the notifications handled in one run of get_cow_farm_workers never
\* select the same citizen twice
C2_NoDoubleSelection ==
  [][get_cow_farm_workers =>
       LET new == Appended(cmdHire, cmdHire')
       IN \A i, j \in 1..Len(new) : i # j => new[i].citizen # new[j].citizen]_vars

\* C3: harvested <= size / 2 for every cow farm (harvested is in half hectares)
C3_HarvestedCapped == \A f \in DOMAIN farms : farms[f].harvested <= farms[f].size

\* a farm filled to its cap by the work of its farmers
C3_Witness ==
  \E f \in DOMAIN farms :
    /\ farms[f].harvested = farms[f].size
    /\ Cardinality(WorkersOf(citizens, f)) >= 2
    /\ "work_cow_farm" \in ran

\* C20: no step lowers the harvested accumulator of a farm
C20_HarvestedMonotone ==
  [][\A f \in DOMAIN farms : farms'[f].harvested >= farms[f].harvested]_vars

\* a farm partly harvested by the work of this frame
C20_Witness ==
  \E f \in DOMAIN farms :
    /\ farms[f].harvested > 0
    /\ farms[f].harvested < farms[f].size
    /\ WorkersOf(citizens, f) # {}
    /\ "work_cow_farm" \in ran

\* C21: a run of a reader leaves nothing unread, so no notification is handled
\* twice: work_cow_farm and check_cow_farm_workers act once per DateChanged
\* they find (and not at all when they find none), get_cow_farm_workers
\* queues at most one hire per CowFarmNeedsWorker, and a queue only grows by
\* the notifications newly sent
C21_ConsumedOnce ==
  [][/\ work_cow_farm =>
          /\ dcWork' = <<>>
          /\ dcWork = <<>> => farms' = farms /\ pools' = pools /\ sent' = sent
     /\ check_cow_farm_workers /\ panicked' = "none" =>
          /\ dcCheck' = <<>>
          /\ \A f \in DOMAIN farms :
               Cardinality(EventsFor(Appended(needsWorker, needsWorker'),
                                     farms[f].colony, f))
                 = Len(dcCheck) * MissingWorkers(citizens, farms, f)
     /\ get_cow_farm_workers =>
          /\ needsWorker' = <<>>
          /\ Len(Appended(cmdHire, cmdHire')) <= Len(needsWorker)
     /\ Len(dcWork') > Len(dcWork) =>
          days' = days + 1 /\ dcWork' = Append(dcWork, date')
     /\ Len(dcCheck') > Len(dcCheck) =>
          days' = days + 1 /\ dcCheck' = Append(dcCheck, date')
     /\ Len(needsWorker') > Len(needsWorker) => check_cow_farm_workers]_vars

\* work_cow_farm has run in a frame without a day change, on a staffed farm
\* with room left, and has produced nothing
C21_Witness ==
  /\ "work_cow_farm" \in ran
  /\ "check_cow_farm_workers" \in ran
  /\ dcWork = <<>> /\ dcCheck = <<>>
  /\ sent = EmptyBag
  /\ needsWorker = <<>>
  /\ days >= 2
  /\ \E f \in DOMAIN farms :
       /\ WorkersOf(citizens, f) # {}
       /\ farms[f].harvested > 0
       /\ farms[f].harvested < farms[f].size

\* C23: a citizen that is a Retiree is not Employed and holds no farm role, in
\* every state
C23_RetireeStaysOut ==
  \A c \in DOMAIN citizens :
    citizens[c].retiree =>
      /\ ~citizens[c].employed
      /\ citizens[c].cowFarmer = NoFarm
      /\ citizens[c].wheatFarmer = NoFarm

\* C9: for every DateChanged it reads, check_cow_farm_workers sends 4 - c
\* CowFarmNeedsWorker { colony, farm } for a farm with c < 4 workers, none for
\* a farm with c >= 4, and nothing else
C9_DemandPerFarm ==
  [][check_cow_farm_workers /\ panicked' = "none" =>
       LET new == Appended(needsWorker, needsWorker')
       IN /\ \A f \in DOMAIN farms :
               LET c == Cardinality(WorkersOf(citizens, f))
               IN Cardinality(EventsFor(new, farms[f].colony, f))
                    = Len(dcCheck) * (IF c < CowFarmQuota THEN CowFarmQuota - c ELSE 0)
          /\ \A i \in 1..Len(new) :
               new[i].farm \in DOMAIN farms /\ new[i].colony = farms[new[i].farm].colony]_vars

\* the demand of a farm with three workers: one notification
C9_Witness ==
  \E f \in DOMAIN farms :
    /\ Cardinality(WorkersOf(citizens, f)) = 3
    /\ "check_cow_farm_workers" \in ran
    /\ "get_cow_farm_workers" \in ran
    /\ needsWorker = <<[colony |-> farms[f].colony, farm |-> f]>>

\* C10: per DateChanged, each farm's increment is min(workers, size/2 - harvested);
\* it is added to harvested; a positive increment adds increment x 2000 to
\* the colony's meat pool and sends one MeatCreated with that amount; a zero
\* increment changes no pool and sends nothing
ClaimedIncrement(f) ==
  Min(2 * Cardinality(WorkersOf(citizens, f)), farms[f].size - farms[f].harvested)

RECURSIVE ClaimedMeat(_, _)
ClaimedMeat(fs, k) ==
  IF fs = {} THEN 0
  ELSE LET f == CHOOSE x \in fs : TRUE
       IN (IF farms[f].colony = k THEN ClaimedIncrement(f) * MeatPerHalfHa ELSE 0)
          + ClaimedMeat(fs \ {f}, k)

RECURSIVE ClaimedEvents(_)
ClaimedEvents(fs) ==
  IF fs = {} THEN EmptyBag
  ELSE LET f == CHOOSE x \in fs : TRUE
       IN (IF ClaimedIncrement(f) > 0
           THEN SetToBag({[type |-> "MeatCreated", colony |-> farms[f].colony,
                           amount |-> ClaimedIncrement(f) * MeatPerHalfHa]})
           ELSE EmptyBag) (+) ClaimedEvents(fs \ {f})

C10_ProductionPerDay ==
  [][work_cow_farm /\ Len(dcWork) = 1 /\ panicked' = "none" =>
       /\ \A f \in DOMAIN farms :
            farms'[f].harvested = farms[f].harvested + ClaimedIncrement(f)
       /\ \A i \in 1..Len(pools) :
            pools'[i].amount = pools[i].amount +
               (IF pools[i].kind = "meat"
                THEN ClaimedMeat(DOMAIN farms, pools[i].colony) ELSE 0)
       /\ sent' = sent (+) ClaimedEvents(DOMAIN farms)]_vars

\* a day's work that was clamped to the room left, with its MeatCreated
C10_Witness ==
  \E f \in DOMAIN farms :
    /\ "work_cow_farm" \in ran
    /\ farms[f].harvested = farms[f].size
    /\ BagIn([type |-> "MeatCreated", colony |-> farms[f].colony,
              amount |-> MeatPerHalfHa], sent)

\* C28: a farm whose harvested has reached size / 2 is finished: no step
\* changes its harvested, and a run of work_cow_farm over the farms of a
\* colony that are all finished changes no pool of the colony and sends no
\* MeatCreated for it; the meat a colony's farms have delivered is 2000 per
\* hectare harvested, at most 2000 x size / 2 per farm
FarmsOf(k) == {f \in DOMAIN farms : farms[f].colony = k}
Finished(f) == farms[f].harvested = farms[f].size

RECURSIVE Total(_, _, _)
Total(fm, fs, field) ==
  IF fs = {} THEN 0
  ELSE LET f == CHOOSE x \in fs : TRUE
       IN fm[f][field] + Total(fm, fs \ {f}, field)

C28_ProductionFinite ==
  [][/\ \A f \in DOMAIN farms :
          Finished(f) => farms'[f].harvested = farms[f].harvested
     /\ \A k \in DOMAIN colonies :
          (\A f \in FarmsOf(k) : Finished(f)) =>
            /\ \A i \in 1..Len(pools) :
                 pools[i].colony = k => pools'[i] = pools[i]
            /\ work_cow_farm =>
                 \A e \in BagToSet(sent') : e.colony = k => BagIn(e, sent)
     /\ \A i \in 1..Len(pools') :
          pools'[i].kind = "meat" =>
            /\ pools'[i].amount
                 = MeatPerHalfHa * Total(farms', FarmsOf(pools[i].colony), "harvested")
            /\ pools'[i].amount
                 <= MeatPerHalfHa * Total(farms', FarmsOf(pools[i].colony), "size")]_vars

\* work_cow_farm has handled a DateChanged on a staffed farm that was already
\* finished, and has sent nothing
C28_Witness ==
  \E f \in DOMAIN farms :
    /\ Finished(f)
    /\ WorkersOf(citizens, f) # {}
    /\ "work_cow_farm" \in ran
    /\ "check_cow_farm_workers" \notin ran /\ dcCheck # <<>>
    /\ sent = EmptyBag
    /\ \E i \in 1..Len(pools) :
         /\ pools[i].kind = "meat" /\ pools[i].colony = farms[f].colony
         /\ pools[i].amount = MeatPerHalfHa * farms[f].size

\* C29: a citizen is Employed if and only if it has a farm role, CowFarmer or
\* WheatFarmer, in every state
C29_EmployedIffFarmRole ==
  \A c \in DOMAIN citizens :
    citizens[c].employed <=>
      (citizens[c].cowFarmer # NoFarm \/ citizens[c].wheatFarmer # NoFarm)

\* the buffers of a frame with a hire and a retirement are applied: a citizen
\* retired and hired in that frame has both components, another citizen has
\* neither
C29_Witness ==
  /\ phase = "apply" /\ ran = {}
  /\ \E c \in DOMAIN citizens :
       /\ citizens[c].retiree
       /\ citizens[c].employed /\ citizens[c].cowFarmer # NoFarm
       /\ date.m = citizens[c].birthday.m /\ date.d = citizens[c].birthday.d
  /\ \E c \in DOMAIN citizens :
       ~citizens[c].employed /\ citizens[c].cowFarmer = NoFarm

\* ------------------------------------------------- properties: retirement
\* C4: a citizen becomes a Retiree only through a command that retirement
\* queued for a CitizenBirthday whose age equals the colony's retirement age,
\* retirement queues a command for exactly those events, and when the command
\* is applied the citizen has no farm role, is not Employed and is a Retiree
C4_RetirementOnThreshold ==
  [][/\ retirement /\ panicked' = "none" =>
          Appended(cmdRetire, cmdRetire') =
            SelectSeq([i \in 1..Len(bdRetirement) |->
                         IF bdRetirement[i].age
                              = colonies[bdRetirement[i].colony].age_of_retirement
                         THEN bdRetirement[i].entity ELSE 0],
                      LAMBDA e : e # 0)
     /\ \A c \in DOMAIN citizens :
          ~citizens[c].retiree /\ citizens'[c].retiree =>
             ApplyRetirement /\ c \in SeqRange(cmdRetire)
     /\ ApplyRetirement =>
          \A c \in SeqRange(cmdRetire) \cap DOMAIN citizens :
            /\ citizens'[c].cowFarmer = NoFarm
            /\ citizens'[c].wheatFarmer = NoFarm
            /\ ~citizens'[c].employed
            /\ citizens'[c].retiree]_vars

\* retirement has just been applied to a citizen on its retirement birthday
C4_Witness ==
  \E c \in DOMAIN citizens :
    /\ citizens[c].retiree /\ ~citizens[c].employed
    /\ citizens[c].cowFarmer = NoFarm
    /\ YearsSince(date, citizens[c].birthday) = colonies[citizens[c].colony].age_of_retirement
    /\ phase = "apply" /\ "retirement" \notin ran
    /\ \E e \in DOMAIN citizens : citizens[e].employed

\* C12: a run of check_birthdays that reads the DateChanged events ds sends,
\* for each citizen, one CitizenBirthday per event of ds whose month and day
\* are the citizen's birth month and day, carrying the citizen, its colony and
\* the whole years since its birth, and sends nothing else
C12_BirthdayDetection ==
  [][check_birthdays(SpecSystems) /\ panicked' = "none" =>
       LET new == Appended(bdRetirement, bdRetirement')
           ds == dcBirthdays
       IN /\ \A c \in DOMAIN citizens :
               Cardinality({i \in 1..Len(new) : new[i].entity = c}) =
               Cardinality({j \in 1..Len(ds) :
                              /\ ds[j].m = citizens[c].birthday.m
                              /\ ds[j].d = citizens[c].birthday.d})
          /\ \A i \in 1..Len(new) :
               /\ new[i].entity \in DOMAIN citizens
               /\ new[i].colony = citizens[new[i].entity].colony
               /\ \E j \in 1..Len(ds) :
                    /\ ds[j].m = citizens[new[i].entity].birthday.m
                    /\ ds[j].d = citizens[new[i].entity].birthday.d
                    /\ new[i].age = ds[j].y - citizens[new[i].entity].birthday.y]_vars

\* a birthday has been announced to the readers while another citizen, born on
\* another day, got no notification
C12_Witness ==
  /\ "check_birthdays" \in ran
  /\ \E i \in 1..Len(bdRetirement) :
       /\ bdRetirement[i].age = date.y - citizens[bdRetirement[i].entity].birthday.y
       /\ citizens[bdRetirement[i].entity].birthday.d = date.d
  /\ \E c \in DOMAIN citizens :
       /\ citizens[c].birthday.d # date.d
       /\ \A i \in 1..Len(bdRetirement) : bdRetirement[i].entity # c

\* ------------------------------------------- start-up: init_citizens alone
\* The loop of init_citizens, one iteration per step: the colony served is
\* the first one that still lacks citizens (population_size = MaxGenerated).
GenDates == {StartDate, MkDate(StartYear, 7, 1)}
GenConfigs == {Config(18, 65, F32FromInt(175), F32FromInt(78)),
               Config(16, 65, F32FromInt(175), F32FromInt(78)),
               Config(18, 65, F32Decimal(1603, 10), F32Decimal(748, 10))}
GenAges == {0, 15, 17, 18, 25, 30}
GenDoys == {1, 200}

CitizensOf(cs, k) == {c \in DOMAIN cs : cs[c].colony = k}
Unpopulated == {k \in DOMAIN colonies : Cardinality(CitizensOf(citizens, k)) < MaxGenerated}
ColonyServed == CHOOSE k \in Unpopulated : \A j \in Unpopulated : k <= j

GenInit ==
  /\ date \in GenDates
  /\ colonies \in [Colonies -> GenConfigs]
  /\ citizens = <<>>
  /\ farms = <<>>
  /\ pools = <<>>
  /\ days = 0
  /\ population = <<>>
  /\ dcBirthdays = <<>> /\ dcCheck = <<>> /\ dcWork = <<>>
  /\ bdComeOfAge = <<>> /\ bdRetirement = <<>> /\ needsWorker = <<>>
  /\ cmdHire = <<>> /\ cmdAge = <<>> /\ cmdRetire = <<>>
  /\ ran = {} /\ phase = "init" /\ sent = EmptyBag /\ created = <<>>
  /\ panicked = "none"
  /\ ConfigLoaded

Generating == panicked = "none" /\ phase = "init"

\* one iteration of the loop: the citizen is spawned, CitizenCreated is sent
init_citizens_spawn ==
  /\ Generating
  /\ Unpopulated # {}
  /\ \E age \in GenAges, doy \in GenDoys, female \in BOOLEAN :
       /\ ~GenPanics(age, doy, date)
       /\ citizens' = Append(citizens,
             GenCitizen(ColonyServed, age, doy, female,
                        colonies[ColonyServed].genetic_height,
                        colonies[ColonyServed].genetic_weight, date))
       /\ created' = Append(created, [age |-> age, colony |-> ColonyServed])
  /\ UNCHANGED <<date, days, colonies, farms, pools, population,
                 eventVars, cmdVars, ran, phase, sent, panicked>>
  /\ UNCHANGED configVars

\* game_date.years_since(birthday).unwrap() on a birthday after the game date
init_citizens_panics ==
  /\ Generating
  /\ Unpopulated # {}
  /\ \E age \in GenAges, doy \in GenDoys : GenPanics(age, doy, date)
  /\ panicked' = "init_citizens"
  /\ UNCHANGED <<date, days, colonies, citizens, farms, pools, population,
                 eventVars, cmdVars, ran, phase, sent, created>>
  /\ UNCHANGED configVars

\* every colony is populated and got its Population::default()
init_citizens_done ==
  /\ Generating
  /\ Unpopulated = {}
  /\ population' = [k \in DOMAIN colonies |-> DefaultPopulation]
  /\ phase' = "run"
  /\ UNCHANGED <<date, days, colonies, citizens, farms, pools,
                 eventVars, cmdVars, ran, sent, created, panicked>>
  /\ UNCHANGED configVars

GenNext == init_citizens_spawn \/ init_citizens_panics \/ init_citizens_done

SpecGen == GenInit /\ [][GenNext]_vars

\* C8: a generated citizen whose drawn age is at least the colony's adult
\* age is Employable; every other generated citizen is a Youngling
C8_GeneratedFlags ==
  \A i \in 1..Len(created) :
    IF created[i].age >= colonies[created[i].colony].age_of_adult
    THEN citizens[i].employable
    ELSE citizens[i].youngling

\* C26: generation never aborts: years_since gives a value for the birthday
\* of every drawn age and day of the year, in init_citizens and for every
\* citizen spawned
C26_GenerationNeverFatal ==
  /\ panicked = "none"
  /\ \A c \in DOMAIN citizens : YearsSince(date, citizens[c].birthday) # -1

\* C13: a generated citizen of drawn age a <= 25 has a height between the
\* newborn baseline and the genetic target of its colony, the baseline at
\* a = 0 and the target at a = 25, and the same for its weight
SizeAsClaimed(a, size, genetic, new_born) ==
  /\ F32Le(F32FromInt(new_born), size)
  /\ F32Le(size, genetic)
  /\ a = 0 => size = F32FromInt(new_born)
  /\ a = 25 => size = genetic

C13_InitialSizeInRange ==
  \A i \in 1..Len(created) :
    created[i].age <= 25 =>
      /\ SizeAsClaimed(created[i].age, citizens[i].height,
                       colonies[created[i].colony].genetic_height, NEW_BORN_HEIGHT)
      /\ SizeAsClaimed(created[i].age, citizens[i].weight,
                       colonies[created[i].colony].genetic_weight, NEW_BORN_WEIGHT)

\* ------------------------------------------------------- cook_food alone
\* cook_food on every layout of the resource entities of the first colony:
\* up to MaxPoolsPerKind pools of each kind, in every iteration order
CookAmounts == {500, 501, 600, 1100}

RECURSIVE PoolLists(_, _, _)
PoolLists(kind, amounts, n) ==
  IF n = 0 THEN {<<>>}
  ELSE PoolLists(kind, amounts, n - 1) \cup
       {Append(l, [kind |-> kind, colony |-> 1, amount |-> a]) :
          l \in {x \in PoolLists(kind, amounts, n - 1) : Len(x) = n - 1},
          a \in amounts}

CookInit ==
  /\ date = StartDate
  /\ colonies \in [Colonies -> SpecConfigs]
  /\ citizens = <<>>
  /\ farms = <<>>
  /\ \E fl \in PoolLists("food", {0}, MaxPoolsPerKind),
        cl \in PoolLists("carb", CookAmounts, MaxPoolsPerKind),
        ml \in PoolLists("meat", CookAmounts, MaxPoolsPerKind) :
       pools = fl \o cl \o ml
  /\ QuietStart

CookSystems == {"cook_food"}

CookNext ==
  \/ cook_food
  \/ BeginApply(CookSystems)
  \/ TimePasses

SpecCook == CookInit /\ [][CookNext]_vars

\* C5: in a colony with one pool of each kind, cook_food turns 500 of carb and
\* 500 of meat into 500 of food when both exceed 500 (600/600/0 gives
\* 100/100/500), and the step that follows on 100/100/500 converts nothing
WellFormed(ps, k) ==
  \A kind \in {"food", "carb", "meat"} :
    Cardinality({i \in 1..Len(ps) : ps[i].kind = kind /\ ps[i].colony = k}) = 1

PoolAmount(ps, kind, k) ==
  ps[CHOOSE i \in 1..Len(ps) : ps[i].kind = kind /\ ps[i].colony = k].amount

C5_CookingBatch ==
  [][cook_food /\ panicked' = "none" =>
       \A k \in DOMAIN colonies :
         WellFormed(pools, k) =>
           LET carb == PoolAmount(pools, "carb", k)
               meat == PoolAmount(pools, "meat", k)
               food == PoolAmount(pools, "food", k)
           IN IF carb > 500 /\ meat > 500
              THEN /\ PoolAmount(pools', "carb", k) = carb - 500
                   /\ PoolAmount(pools', "meat", k) = meat - 500
                   /\ PoolAmount(pools', "food", k) = food + 500
              ELSE /\ PoolAmount(pools', "carb", k) = carb
                   /\ PoolAmount(pools', "meat", k) = meat
                   /\ PoolAmount(pools', "food", k) = food]_vars

\* 600/600/0 has been cooked into 100/100/500 and the step of a later frame
\* has just run on it without converting anything
C5_Witness ==
  \E k \in DOMAIN colonies :
    /\ WellFormed(pools, k)
    /\ PoolAmount(pools, "carb", k) = 100
    /\ PoolAmount(pools, "meat", k) = 100
    /\ PoolAmount(pools, "food", k) = 500
    /\ "cook_food" \in ran
    /\ sent = EmptyBag

\* C7: cook_food aborts whenever some colony lacks a pool of one of the three
\* kinds or has more than one pool of a kind
C7_BadLayoutIsFatal ==
  [][cook_food /\ (\E k \in DOMAIN colonies : ~WellFormed(pools, k)) =>
       panicked' # "none"]_vars

\* the amount a colony holds of one kind, over all its pools of that kind
KindTotal(ps, kind, k) ==
  SeqSum([i \in 1..Len(ps) |->
            IF ps[i].kind = kind /\ ps[i].colony = k THEN ps[i].amount ELSE 0])

CookEventTypes == {"CarbConsumed", "MeatConsumed", "FoodCreated"}

\* C11: a step of cook_food converts at most once per colony, and it sends one
\* CarbConsumed, one MeatConsumed and one FoodCreated with the colony and the
\* amount 500 for a colony that converted and nothing for one that did not
C11_OneEventPerConversion ==
  [][cook_food /\ panicked' = "none" =>
       /\ \A e \in BagToSet(sent') :
            CopiesIn(e, sent') > CopiesIn(e, sent) =>
              e.type \in CookEventTypes /\ e.amount = 500 /\ e.colony \in DOMAIN colonies
       /\ \A k \in DOMAIN colonies :
            LET made == KindTotal(pools', "food", k) - KindTotal(pools, "food", k)
                n == made \div 500
            IN /\ made \in {0, 500}
               /\ KindTotal(pools, "carb", k) - KindTotal(pools', "carb", k) = made
               /\ KindTotal(pools, "meat", k) - KindTotal(pools', "meat", k) = made
               /\ \A t \in CookEventTypes :
                    LET e == [type |-> t, colony |-> k, amount |-> 500]
                    IN CopiesIn(e, sent') - CopiesIn(e, sent) = n]_vars

\* a conversion has just been announced by its three notifications
C11_Witness ==
  /\ "cook_food" \in ran
  /\ \E k \in DOMAIN colonies :
       /\ KindTotal(pools, "food", k) = 500
       /\ \A t \in CookEventTypes :
            CopiesIn([type |-> t, colony |-> k, amount |-> 500], sent) = 1

\* C17: when the carb or the meat of a colony with one pool of each kind is
\* not above 500, a step of cook_food leaves its three pools as they are and
\* sends no notification naming it
C17_HardGate ==
  [][cook_food /\ panicked' = "none" =>
       \A k \in DOMAIN colonies :
         (/\ WellFormed(pools, k)
          /\ \/ PoolAmount(pools, "carb", k) <= 500
             \/ PoolAmount(pools, "meat", k) <= 500) =>
           /\ \A i \in 1..Len(pools) : pools[i].colony = k => pools'[i] = pools[i]
           /\ \A e \in BagToSet(sent') :
                e.colony = k => CopiesIn(e, sent') = CopiesIn(e, sent)]_vars

\* cook_food has just run on exactly 500 of carb with plenty of meat, and
\* nothing was cooked or announced
C17_Witness ==
  /\ "cook_food" \in ran
  /\ sent = EmptyBag
  /\ \E k \in DOMAIN colonies :
       /\ WellFormed(pools, k)
       /\ PoolAmount(pools, "carb", k) = 500
       /\ PoolAmount(pools, "meat", k) = 1100
       /\ PoolAmount(pools, "food", k) = 0

\* ------------------------------------------------- production and cooking
\* One frame per day: the cow farms worked by their farmers, the grain
\* deliveries and cook_food, in every order, from empty pools
FoodFarmer(cfg, f, now) ==
  [GenCitizen(FarmColony(f), 30, 100, FALSE, cfg[FarmColony(f)].genetic_height,
              cfg[FarmColony(f)].genetic_weight, now)
     EXCEPT !.employed = TRUE, !.cowFarmer = f]

FoodInit ==
  /\ date = StartDate
  /\ colonies \in [Colonies -> SpecConfigs]
  /\ \E n \in 1..2, f \in Farms : citizens = [c \in 1..n |-> FoodFarmer(colonies, f, date)]
  /\ \E size \in (MaxFarmSize-1)..MaxFarmSize :
       farms = [f \in Farms |-> [colony |-> FarmColony(f), size |-> size, harvested |-> 0]]
  /\ pools = InitPools(NumColonies)
  /\ QuietStart

FoodSystems == {"work_cow_farm", "work_wheat_farm", "cook_food"}

FoodNext ==
  \/ work_cow_farm
  \/ work_wheat_farm
  \/ cook_food
  \/ BeginApply(FoodSystems)
  \/ DayChanges(FoodSystems, MaxDays)

SpecFood == FoodInit /\ [][FoodNext]_vars

\* C18: no pool ever holds a negative amount
C18_PoolsNonNegative == \A i \in 1..Len(pools) : pools[i].amount >= 0

\* meat and carbs were produced and cooked down to 500 or less of one of them
C18_Witness ==
  \E k \in DOMAIN colonies :
    /\ KindTotal(pools, "food", k) >= 1000
    /\ KindTotal(pools, "carb", k) <= 500 \/ KindTotal(pools, "meat", k) <= 500
    /\ \E f \in DOMAIN farms : farms[f].colony = k /\ farms[f].harvested > 0

\* ------------------------------------------------ update_population alone
\* update_population on colonies of up to MaxCounted citizens as the generator
\* makes them, the women with the children the birth subsystem has counted
PopAges == {0, 25, 30}
PopSexes == {<<FALSE, 0>>, <<TRUE, 0>>, <<TRUE, 3>>}
PopConfigs == {Config(18, 65, F32Decimal(1603, 10), F32Decimal(748, 10))}

PopCitizens(cfg, now) ==
  {[GenCitizen(k, age, 1, sex[1], cfg[k].genetic_height, cfg[k].genetic_weight, now)
      EXCEPT !.children_had = sex[2]] :
     k \in DOMAIN cfg, age \in PopAges, sex \in PopSexes}

RECURSIVE PopLists(_, _)
PopLists(choices, n) ==
  IF n = 0 THEN {<<>>}
  ELSE PopLists(choices, n - 1) \cup
       {Append(l, c) : l \in {x \in PopLists(choices, n - 1) : Len(x) = n - 1},
                       c \in choices}

PopInit ==
  /\ date = StartDate
  /\ colonies \in [Colonies -> PopConfigs]
  /\ citizens \in PopLists(PopCitizens(colonies, date), MaxCounted)
  /\ farms = <<>>
  /\ pools = InitPools(NumColonies)
  /\ QuietStart

PopSystems == {"update_population"}

PopNext ==
  \/ update_population
  \/ BeginApply(PopSystems)
  \/ TimePasses

SpecPop == PopInit /\ [][PopNext]_vars

\* start at v1, then avg = (avg + v) / 2 for each subsequent v; 0 for no value
ClaimedFold(vals) == IF vals = <<>> THEN F32Zero ELSE FoldFrom(Head(vals), Tail(vals))

\* C14: the averages update_population writes for a colony are the pairwise
\* folds of the ages, heights and weights of its citizens in one enumeration
\* order, and of the children counts of its women in one enumeration order;
\* average_age is the floor of its fold and an empty colony gets 0
C14_PairwiseFold ==
  [][update_population /\ panicked' = "none" =>
       \A k \in DOMAIN population :
         /\ \E o \in Orders(CitizensOf(citizens, k)) :
              /\ population'[k].average_age =
                   F32Floor(ClaimedFold([i \in 1..Len(o) |->
                      F32FromInt(YearsSince(date, citizens[o[i]].birthday))]))
              /\ population'[k].average_height =
                   ClaimedFold([i \in 1..Len(o) |-> citizens[o[i]].height])
              /\ population'[k].average_weight =
                   ClaimedFold([i \in 1..Len(o) |-> citizens[o[i]].weight])
         /\ \E o \in Orders({c \in CitizensOf(citizens, k) : citizens[c].female}) :
              population'[k].average_children_per_mother =
                ClaimedFold([i \in 1..Len(o) |-> F32FromInt(citizens[o[i]].children_had)])
         /\ CitizensOf(citizens, k) = {} =>
              /\ population'[k].average_age = 0
              /\ population'[k].average_height = F32Zero
              /\ population'[k].average_weight = F32Zero]_vars

\* a snapshot of three citizens aged 30, 30 and 0 in this order: the fold
\* gives ((30 + 30) / 2 + 0) / 2 = 15, where the mean is 20
C14_Witness ==
  /\ "update_population" \in ran
  /\ \E k \in DOMAIN population :
       /\ population[k].count = 3
       /\ population[k].average_age = 15
       /\ Cardinality({c \in CitizensOf(citizens, k) :
                         YearsSince(date, citizens[c].birthday) = 30}) = 2

\* ---------------------------------------------- configuration plugin alone
\* From the start of the application: every loader has sent its
\* RegisterConfigReaderEvent at Startup, the state is ConfigSelection
ConfigInit ==
  /\ date = StartDate
  /\ days = 0
  /\ colonies = <<>> /\ citizens = <<>> /\ farms = <<>> /\ pools = <<>>
  /\ population = <<>>
  /\ dcBirthdays = <<>> /\ dcCheck = <<>> /\ dcWork = <<>>
  /\ bdComeOfAge = <<>> /\ bdRetirement = <<>> /\ needsWorker = <<>>
  /\ cmdHire = <<>> /\ cmdAge = <<>> /\ cmdRetire = <<>>
  /\ ran = {} /\ phase = "run" /\ sent = EmptyBag /\ created = <<>>
  /\ panicked = "none"
  /\ simState = "ConfigSelection"
  /\ nextState = "none"
  /\ allConfigReaders = NoReaders
  /\ registerEvents \in Orders(Loaders)
  /\ finishedEvents = <<>>
  /\ loadingFiles = {}
  /\ loadedAssets = NoAssets

ConfigNext ==
  \/ show_config_selection
  \/ register_readers
  \/ recive_config_loaded_events
  \/ \E n \in Loaders : notify_done(n)
  \/ \E n \in Loaders : asset_loaded(n)
  \/ ConfigFrame

SpecConfig == ConfigInit /\ [][ConfigNext]_vars

\* C15: whenever FinishedLoadingConfig is set or entered, every reader in the
\* table is Recived: no registered reader is Waiting
C15_FinishedOnlyWhenAllRecived ==
  (nextState = "FinishedLoadingConfig" \/ simState = "FinishedLoadingConfig") =>
    \A n \in DOMAIN allConfigReaders : allConfigReaders[n] # "Waiting"

\* FinishedLoadingConfig has been set with both loaders registered
C15_Witness ==
  /\ nextState = "FinishedLoadingConfig"
  /\ DOMAIN allConfigReaders = Loaders
  /\ \A n \in Loaders : allConfigReaders[n] = "Recived"

\* --------------------------------------- configuration plugin, every frame
\* The configuration plugin under the schedule of the application: every
\* system of Update runs in every frame, frames follow one another, and the
\* asset server eventually delivers every file it was asked for.  Whether a
\* folder is ever selected is left to the user.
SpecLoading ==
  /\ ConfigInit
  /\ [][ConfigNext]_vars
  /\ WF_vars(show_config_selection)
  /\ WF_vars(register_readers)
  /\ WF_vars(recive_config_loaded_events)
  /\ \A n \in Loaders : WF_vars(notify_done(n))
  /\ \A n \in Loaders : WF_vars(asset_loaded(n))
  /\ WF_vars(ConfigFrame)

\* a file has been delivered that does not parse into its configuration
Unparsable == \E n \in DOMAIN loadedAssets : ~loadedAssets[n]

MaxRegistered == 3
MaxFinished == 2

ProtocolNames == Loaders \cup {"extra"}

Registrations == UNION {[1..k -> Loaders] : k \in 0..MaxRegistered}

ProtocolInit ==
  /\ date = StartDate
  /\ days = 0
  /\ colonies = <<>> /\ citizens = <<>> /\ farms = <<>> /\ pools = <<>>
  /\ population = <<>>
  /\ dcBirthdays = <<>> /\ dcCheck = <<>> /\ dcWork = <<>>
  /\ bdComeOfAge = <<>> /\ bdRetirement = <<>> /\ needsWorker = <<>>
  /\ cmdHire = <<>> /\ cmdAge = <<>> /\ cmdRetire = <<>>
  /\ ran = {} /\ phase = "run" /\ sent = EmptyBag /\ created = <<>>
  /\ panicked = "none"
  /\ simState = "ConfigSelection"
  /\ nextState = "none"
  /\ allConfigReaders = NoReaders
  /\ registerEvents \in Registrations
  /\ finishedEvents = <<>>
  /\ loadingFiles = {}
  /\ loadedAssets = NoAssets

\* EventWriter<ConfigReaderFinishedEvent>::send by a system other than the
\* notify_done of the two loaders
finished_sent(n) ==
  /\ panicked = "none"
  /\ simState = "LoadingConfig"
  /\ Len(finishedEvents) < MaxFinished
  /\ finishedEvents' = Append(finishedEvents, n)
  /\ UNCHANGED <<worldVars, ran, phase, panicked, simState, nextState,
                 allConfigReaders, registerEvents, loadingFiles, loadedAssets>>

ProtocolNext ==
  \/ show_config_selection
  \/ register_readers
  \/ recive_config_loaded_events
  \/ \E n \in Loaders : notify_done(n)
  \/ \E n \in Loaders : asset_loaded(n)
  \/ \E n \in ProtocolNames : finished_sent(n)
  \/ ConfigFrame

SpecProtocol == ProtocolInit /\ [][ProtocolNext]_vars

\* the table with the names of evs[1..k] set to state
Marked(all, evs, k, state) ==
  [n \in DOMAIN all \cup {evs[i] : i \in 1..k} |->
     IF \E i \in 1..k : evs[i] = n THEN state ELSE all[n]]

\* the positions of evs naming a reader that is registered by then
Duplicates(all, evs) ==
  {i \in 1..Len(evs) :
     evs[i] \in DOMAIN all \cup {evs[j] : j \in 1..(i - 1)}}

\* the positions of evs naming a reader that was never registered, or one
\* that is Recived by then
Unexpected(all, evs) ==
  {i \in 1..Len(evs) :
     \/ evs[i] \notin DOMAIN all
     \/ all[evs[i]] = "Recived"
     \/ \E j \in 1..(i - 1) : evs[j] = evs[i]}

FirstOf(S) == CHOOSE i \in S : \A j \in S : i <= j

\* C22: a run of register_readers that reads a name already registered, and
\* a run of recive_config_loaded_events that reads a name never registered or
\* already Recived, abort at that event: the table keeps what the events
\* before it made of it, the faulty event changes no entry, and
\* FinishedLoadingConfig is not set; a run that reads no such event does not
\* abort
C22_ProtocolErrorsFatal ==
  [][/\ register_readers /\ simState \in {"ConfigSelection", "LoadingConfig"} =>
          LET bad == Duplicates(allConfigReaders, registerEvents)
          IN IF bad = {}
             THEN panicked' = "none"
             ELSE /\ panicked' = "register_readers"
                  /\ allConfigReaders' =
                       Marked(allConfigReaders, registerEvents,
                              FirstOf(bad) - 1, "Waiting")
     /\ recive_config_loaded_events /\ simState = "LoadingConfig" =>
          LET bad == Unexpected(allConfigReaders, finishedEvents)
          IN IF bad = {}
             THEN panicked' = "none"
             ELSE /\ panicked' = "recive_config_loaded_events"
                  /\ allConfigReaders' =
                       Marked(allConfigReaders, finishedEvents,
                              FirstOf(bad) - 1, "Recived")
                  /\ nextState' = nextState]_vars

\* recive_config_loaded_events has aborted on a finished event that reached
\* it after both registered loaders were marked Recived
C22_Witness ==
  /\ panicked = "recive_config_loaded_events"
  /\ DOMAIN allConfigReaders = Loaders
  /\ \A n \in Loaders : allConfigReaders[n] = "Recived"
  /\ nextState # "FinishedLoadingConfig"

\* ------------------------------------------------- labour allocation alone
\* Two colonies with one cow farm each: colony 1 has more adults than a farm
\* takes, colony 2 has one citizen, generated below the age of 18.  A day may
\* change at every frame.
LabourAdults == 5
LabourDays == 5
LabourColonies == 1..2
LabourDraws == <<<<30, 100, FALSE>>, <<15, 100, FALSE>>>>

LabourCitizen(c, cfg, now) ==
  LET k == IF c <= LabourAdults THEN 1 ELSE 2
  IN GenCitizen(k, LabourDraws[k][1], LabourDraws[k][2], LabourDraws[k][3],
                cfg[k].genetic_height, cfg[k].genetic_weight, now)

LabourInit ==
  /\ date = StartDate
  /\ colonies \in [LabourColonies -> SpecConfigs]
  /\ citizens = [c \in 1..(LabourAdults + 1) |-> LabourCitizen(c, colonies, date)]
  /\ farms = [f \in LabourColonies |->
                [colony |-> f, size |-> MaxFarmSize, harvested |-> 0]]
  /\ pools = InitPools(2)
  /\ QuietStart

LabourSystems == {"check_cow_farm_workers", "get_cow_farm_workers"}

LabourNext ==
  \/ TimePasses
  \/ DayChanges(LabourSystems, LabourDays)
  \/ check_cow_farm_workers
  \/ get_cow_farm_workers
  \/ BeginApply(LabourSystems)
  \/ ApplyHire

SpecLabour == LabourInit /\ [][LabourNext]_vars

\* C24: every hire that get_cow_farm_workers queues names a citizen that is
\* Employable and not a Youngling
C24_OnlyEligibleHired ==
  [][get_cow_farm_workers =>
       LET new == Appended(cmdHire, cmdHire')
       IN \A i \in 1..Len(new) :
            /\ citizens[new[i].citizen].employable
            /\ ~citizens[new[i].citizen].youngling]_vars

\* C25: no cow farm has more than 4 citizens attached to it
C25_AtMostFourWorkers ==
  \A f \in DOMAIN farms :
    Cardinality({c \in DOMAIN citizens : citizens[c].cowFarmer = f}) <= CowFarmQuota

\* C30: a citizen attached to a cow farm is a citizen of the farm's colony
C30_SameColony ==
  \A c \in DOMAIN citizens :
    citizens[c].cowFarmer # NoFarm =>
      farms[citizens[c].cowFarmer].colony = citizens[c].colony

\* both colonies have staffed their own farm
C30_Witness ==
  /\ \E c \in DOMAIN citizens : citizens[c].colony = 1 /\ citizens[c].cowFarmer = 1
  /\ \E c \in DOMAIN citizens : citizens[c].colony = 2 /\ citizens[c].cowFarmer = 2
  /\ \E c \in DOMAIN citizens : citizens[c].colony = 1 /\ ~citizens[c].employed

\* ---------------------------------------------- staffing of several farms
\* One colony with StaffingFarms cow farms, some days into its run: every
\* farm has got all its workers but one, and there is one unemployed adult
\* left for each farm.  Every system of the Update tuple runs in every frame
\* and the buffers are applied at its end; days keep changing up to the end
\* of the calendar explored.
StaffingFarms == 2
StaffingDays == 3

StaffingCitizen(c, cfg, now) ==
  IF c <= StaffingFarms * (CowFarmQuota - 1)
  THEN Hired(LabourCitizen(1, cfg, now), ((c - 1) % StaffingFarms) + 1)
  ELSE LabourCitizen(1, cfg, now)

StaffingInit ==
  /\ date = StartDate
  /\ colonies \in [Colonies -> SpecConfigs]
  /\ citizens = [c \in 1..(StaffingFarms * CowFarmQuota) |->
                   StaffingCitizen(c, colonies, date)]
  /\ farms = [f \in 1..StaffingFarms |->
                [colony |-> 1, size |-> MaxFarmSize, harvested |-> 0]]
  /\ pools = InitPools(NumColonies)
  /\ QuietStart

StaffingNext ==
  \/ TimePasses
  \/ DayChanges(LabourSystems, StaffingDays)
  \/ check_cow_farm_workers
  \/ get_cow_farm_workers
  \/ BeginApply(LabourSystems)
  \/ ApplyHire

SpecStaffing ==
  /\ StaffingInit
  /\ [][StaffingNext]_vars
  /\ WF_vars(check_cow_farm_workers)
  /\ WF_vars(get_cow_farm_workers)
  /\ WF_vars(BeginApply(LabourSystems))
  /\ WF_vars(ApplyHire)
  /\ SF_vars(DayChanges(LabourSystems, StaffingDays))

Shortfall(k) ==
  Total([f \in DOMAIN farms |->
           [missing |-> CowFarmQuota
                          - Min(CowFarmQuota, Cardinality(WorkersOf(citizens, f)))]],
        FarmsOf(k), "missing")

Supplied(k) == Cardinality(Idle(citizens, k)) >= Shortfall(k)
Staffed(k) ==
  \A f \in FarmsOf(k) : Cardinality(WorkersOf(citizens, f)) = CowFarmQuota
Overstaffed(k) ==
  \E f \in FarmsOf(k) : Cardinality(WorkersOf(citizens, f)) > CowFarmQuota

\* C27: from a state in which a colony has at least as many unemployed
\* citizens as its cow farms lack workers, with days that keep changing and
\* nobody retiring or dying, a state is reached in which every cow farm of the
\* colony has exactly 4 workers; the calendar explored may end before that,
\* but not with a farm above 4, which no later day can undo
C27_StaffingLiveness ==
  \A k \in Colonies :
    Supplied(k) ~> (Staffed(k) \/ (days = StaffingDays /\ ~Overstaffed(k)))

\* ------------------------------------------------- lifecycle over the years
\* One frame per day, a colony that starts empty and is populated by births,
\* small age thresholds (the adult age is no multiple of 4, the retirement
\* age is) and a start on the eve of a leap day.
LifeStart == MkDate(StartYear + 2, 2, 28)
LifeConfigs == {Config(2, 4, F32FromInt(175), F32FromInt(78))}

LifeInit ==
  /\ date = LifeStart
  /\ colonies \in [Colonies -> LifeConfigs]
  /\ citizens = <<>>
  /\ farms = <<>>
  /\ pools = InitPools(NumColonies)
  /\ QuietStart

LifeSystems == {"update_population", "give_birth", "check_birthdays",
                "come_of_age", "retirement"}

LifeNext ==
  \/ update_population
  \/ give_birth
  \/ no_birth
  \/ check_birthdays(LifeSystems)
  \/ come_of_age
  \/ retirement
  \/ BeginApply(LifeSystems)
  \/ ApplyComeOfAge
  \/ ApplyRetirement
  \/ DayChanges(LifeSystems, LifeDays)

SpecLife == LifeInit /\ [][LifeNext]_vars

\* C6: every snapshot written by update_population has
\* younglings + working_pop + retirees <= count
C6_BucketsWithinCount ==
  \A k \in DOMAIN population :
    population[k].younglings + population[k].working_pop + population[k].retirees
      <= population[k].count

\* C16: no citizen is a Youngling and a Retiree at once
C16_NeverYounglingAndRetiree ==
  \A c \in DOMAIN citizens : ~(citizens[c].youngling /\ citizens[c].retiree)

\* C19: come_of_age queues a command for exactly the birthday events whose
\* age is the adult age of their colony; the command applied clears Youngling
\* and leaves every other component of the citizen as it is; Youngling is
\* cleared in no other way
C19_ComingOfAge ==
  [][/\ come_of_age /\ panicked' = "none" =>
          Appended(cmdAge, cmdAge') =
            SelectSeq([i \in 1..Len(bdComeOfAge) |->
                         IF bdComeOfAge[i].age
                              = colonies[bdComeOfAge[i].colony].age_of_adult
                         THEN bdComeOfAge[i].entity ELSE 0],
                      LAMBDA e : e # 0)
     /\ ApplyComeOfAge =>
          \A c \in DOMAIN citizens :
            citizens'[c] = IF c \in SeqRange(cmdAge)
                           THEN [citizens[c] EXCEPT !.youngling = FALSE]
                           ELSE citizens[c]
     /\ \A c \in DOMAIN citizens :
          citizens[c].youngling /\ ~citizens'[c].youngling =>
            ApplyComeOfAge /\ c \in SeqRange(cmdAge)]_vars

\* a born citizen has just come of age on its second birthday and is neither
\* Youngling nor Employable
C19_Witness ==
  \E c \in DOMAIN citizens :
    /\ ~citizens[c].youngling /\ ~citizens[c].employable
    /\ ~citizens[c].retiree /\ ~citizens[c].employed
    /\ YearsSince(date, citizens[c].birthday) = colonies[citizens[c].colony].age_of_adult
    /\ date.m = citizens[c].birthday.m /\ date.d = citizens[c].birthday.d
    /\ phase = "apply" /\ "come_of_age" \notin ran

====
